---------------------------- MODULE Spec2Model ----------------------------
(***************************************************************************)
(* Model of the CSV exporter of the invoice analyzer                       *)
(* (src/utils/csvExporter.ts): the CSV text built by exportToCsv and the   *)
(* delivery chain host bridge -> save picker -> anchor download; and of    *)
(* the App component that owns the collection of invoice items: upload     *)
(* batches, flag changes and the two export buttons.                       *)
(*                                                                         *)
(* Strings are sequences of one-character strings.  A JavaScript value is  *)
(* a tagged record, an object is its property list in insertion order.     *)
(***************************************************************************)
EXTENDS Integers, Sequences, FiniteSets, TLC

VARIABLES
    env,        \* what the window offers: pywebview bridge, save picker, <a download>
    exports,    \* the exportToCsv invocations made so far, one process record each
    app         \* the state of the App component: the collection, the upload batches

vars == <<env, exports, app>>

---------------------------------------------------------------------------
(* Bounds of the model *)

MaxStrLen == 3      \* longest generated field string
MaxRows == 2        \* longest generated multi-record sequence
MaxBatches == 2     \* most upload batches started
MaxFiles == 2       \* most files of one upload batch
MaxClock == 1       \* latest value of Date.now()
MaxFlagChanges == 1 \* most flag changes made by the user
MaxClicks == 2      \* most clicks on checkboxes in a session with exports
MaxExports == 1     \* most clicks on export buttons in a session

---------------------------------------------------------------------------
(* Characters and strings *)

COMMA == ","
DQUOTE == "\""
CR == "\r"
LF == "\n"
CRLF == <<CR, LF>>

\* Characters the generated field strings are made of: one ordinary
\* character and the four characters the quoting rule looks for.
Alphabet == {"a", COMMA, DQUOTE, CR, LF}

\* The character ids are made of; it is in no other generated string.
IdChar == "#"

RECURSIVE StringsUpTo(_)
StringsUpTo(n) ==
    IF n = 0 THEN {<<>>}
    ELSE LET shorter == StringsUpTo(n - 1)
         IN  shorter \cup {Append(s, c) : s \in shorter, c \in Alphabet}

RECURSIVE Join(_, _)
\* Array.prototype.join
Join(parts, sep) ==
    IF parts = <<>> THEN <<>>
    ELSE IF Len(parts) = 1 THEN parts[1]
    ELSE parts[1] \o sep \o Join(Tail(parts), sep)

---------------------------------------------------------------------------
(* JavaScript values *)

Undefined == [t |-> "undefined"]
Null == [t |-> "null"]
Str(s) == [t |-> "string", s |-> s]
Num(n) == [t |-> "number", n |-> n]
Bool(b) == [t |-> "boolean", b |-> b]
Arr(items) == [t |-> "array", items |-> items]

typeof(v) == IF v.t = "null" \/ v.t = "array" THEN "object" ELSE v.t

Digits == <<"0", "1", "2", "3", "4", "5", "6", "7", "8", "9">>

RECURSIVE NatToString(_)
NatToString(n) ==
    IF n < 10 THEN <<Digits[n + 1]>>
    ELSE Append(NatToString(n \div 10), Digits[(n % 10) + 1])

\* String(value) of a string or of an integral number
String(v) ==
    CASE v.t = "string" -> v.s
      [] v.t = "number" -> IF v.n < 0 THEN <<"-">> \o NatToString(0 - v.n)
                           ELSE NatToString(v.n)

\* obj[key]: the value of an own property, undefined when there is none
Get(obj, key) ==
    IF \E i \in 1..Len(obj) : obj[i][1] = key
    THEN obj[CHOOSE i \in 1..Len(obj) : obj[i][1] = key][2]
    ELSE Undefined

\* a ?? b
Nullish(a, b) == IF a.t = "null" \/ a.t = "undefined" THEN b ELSE a

---------------------------------------------------------------------------
(* formatCsvCell *)

\* the test without the carriage return: /[",\n]/
NeedsQuotingNoCR(s) == \E i \in 1..Len(s) : s[i] \in {DQUOTE, COMMA, LF}

\* /[",\r\n]/.test(stringValue)
NeedsQuoting(s) == \E i \in 1..Len(s) : s[i] \in {DQUOTE, COMMA, CR, LF}

\* no double quote is doubled
DoubleQuotesNone(s) == s

RECURSIVE DoubleQuotes(_)
\* stringValue.replace(/"/g, '""')
DoubleQuotes(s) ==
    IF s = <<>> THEN <<>>
    ELSE (IF Head(s) = DQUOTE THEN <<DQUOTE, DQUOTE>> ELSE <<Head(s)>>)
         \o DoubleQuotes(Tail(s))

\* String(value) also for a boolean: true, false
stringValueLowerCase(value) ==
    IF typeof(value) = "boolean"
    THEN (IF value.b THEN <<"t", "r", "u", "e">> ELSE <<"f", "a", "l", "s", "e">>)
    ELSE String(value)

\* stringValue of formatCsvCell, for a value that is neither null nor undefined
stringValue(value) ==
    IF typeof(value) = "boolean"
    THEN (IF value.b THEN <<"T", "R", "U", "E">> ELSE <<"F", "A", "L", "S", "E">>)
    ELSE String(value)

\* formatCsvCell without its first test: String(null), String(undefined)
formatCsvCellNoNullCheck(value) ==
    LET sv == IF value.t = "null" THEN <<"n", "u", "l", "l">>
              ELSE IF value.t = "undefined"
              THEN <<"u", "n", "d", "e", "f", "i", "n", "e", "d">>
              ELSE stringValue(value)
    IN  IF NeedsQuoting(sv)
        THEN <<DQUOTE>> \o DoubleQuotes(sv) \o <<DQUOTE>>
        ELSE sv

formatCsvCell(value) ==
    IF value.t = "null" \/ typeof(value) = "undefined" THEN <<>>
    ELSE LET sv == stringValue(value)
         IN  IF NeedsQuoting(sv)
             THEN <<DQUOTE>> \o DoubleQuotes(sv) \o <<DQUOTE>>
             ELSE sv

---------------------------------------------------------------------------
(* Property names of InvoiceItem *)

id == <<"i", "d">>
date == <<"d", "a", "t", "e">>
invoiceNumber == <<"i", "n", "v", "o", "i", "c", "e", "N", "u", "m", "b", "e", "r">>
partyName == <<"p", "a", "r", "t", "y", "N", "a", "m", "e">>
panOrVatNumber == <<"p", "a", "n", "O", "r", "V", "a", "t", "N", "u", "m", "b", "e", "r">>
particulars == <<"p", "a", "r", "t", "i", "c", "u", "l", "a", "r", "s">>
taxableAmount == <<"t", "a", "x", "a", "b", "l", "e", "A", "m", "o", "u", "n", "t">>
vatAmount == <<"v", "a", "t", "A", "m", "o", "u", "n", "t">>
totalAmount == <<"t", "o", "t", "a", "l", "A", "m", "o", "u", "n", "t">>
sourceFileName == <<"s", "o", "u", "r", "c", "e", "F", "i", "l", "e", "N", "a", "m", "e">>
vatCredit == <<"v", "a", "t", "C", "r", "e", "d", "i", "t">>

---------------------------------------------------------------------------
(* The CSV text built by exportToCsv *)

orderedKeys ==
    <<date, invoiceNumber, partyName, panOrVatNumber, particulars,
      taxableAmount, vatAmount, totalAmount, sourceFileName, vatCredit>>

\* every header cell followed by a comma
headerStringTrailingComma ==
    Join([i \in 1..Len(orderedKeys) |-> formatCsvCell(Str(orderedKeys[i]))], <<COMMA>>)
    \o <<COMMA>>

headerString ==
    Join([i \in 1..Len(orderedKeys) |-> formatCsvCell(Str(orderedKeys[i]))], <<COMMA>>)

\* the value handed to formatCsvCell for one key of one row
valueToFormat(row, key) ==
    IF key = sourceFileName THEN Nullish(Get(row, sourceFileName), Str(<<>>))
    ELSE IF key = vatCredit
         THEN (IF typeof(Get(row, vatCredit)) = "boolean"
               THEN Get(row, vatCredit) ELSE Bool(FALSE))
         ELSE Get(row, key)

\* the cells of one row taken from the object's own properties, in their order
rowCellsOwnProperties(row) ==
    [i \in 1..Len(row) |-> formatCsvCell(row[i][2])]

\* the cells of one row, in the order of orderedKeys
rowCells(row) ==
    [i \in 1..Len(orderedKeys) |-> formatCsvCell(valueToFormat(row, orderedKeys[i]))]

line(row) == Join(rowCells(row), <<COMMA>>)

\* the lines joined by line breaks instead of each being ended by one
appendLinesJoined(content, rows) ==
    content \o Join([i \in 1..Len(rows) |-> line(rows[i])], CRLF)

RECURSIVE appendLines(_, _)
\* for (const row of rows) csvContent += line + '\r\n'
appendLines(content, rows) ==
    IF rows = <<>> THEN content
    ELSE appendLines(content \o line(Head(rows)) \o CRLF, Tail(rows))

\* csvContent kept between calls: the text of the call before is still in it
csvContentShared(rows) ==
    appendLines((IF exports = <<>> THEN <<>> ELSE exports[Len(exports)].content)
                \o headerString \o CRLF, rows)

\* csvContent when the loop has ended
csvContent(rows) == appendLines(headerString \o CRLF, rows)

mimeType == "text/csv;charset=utf-8"

---------------------------------------------------------------------------
(* One exportToCsv invocation and what it has done so far *)

NoError == ""

\* the process record of an invocation that has just been entered
NewExport(filename, rows) ==
    [ filename |-> filename,     \* the filename argument
      rows     |-> rows,         \* the rows argument
      built    |-> FALSE,        \* has csvContent been built
      content  |-> <<>>,         \* csvContent
      pc       |-> "entered",    \* the pending await, or "done"
      result   |-> "running",    \* how exportToCsv itself ended: "returned" or "threw"
      outcome  |-> "none",       \* how the delivery chain ended
      dlg      |-> [filename |-> "", content |-> <<>>, mimeType |-> ""],
                                 \* the parameters of attemptSaveWithDialogs
      calls    |-> <<>>,         \* the capability calls made, in order
      alerts   |-> <<>>,         \* the alert() calls made, in order
      console  |-> <<>>,         \* the console calls made, in order
      answers  |-> <<>>,         \* what the capabilities answered, in order
      dom      |-> [anchorAttached |-> FALSE, urlLive |-> FALSE] ]

Invoke(p, fn, filename, content, mime) ==
    [p EXCEPT !.calls = Append(@, [fn |-> fn, filename |-> filename,
                                   content |-> content, mimeType |-> mime])]

Alert(p, kind, detail) ==
    [p EXCEPT !.alerts = Append(@, [kind |-> kind, detail |-> detail])]

Console(p, level, msg, data) ==
    [p EXCEPT !.console = Append(@, [level |-> level, msg |-> msg, data |-> data])]

\* the capability call fn has ended with this answer
Answer(p, fn, answer) == [p EXCEPT !.answers = Append(@, <<fn, answer>>)]

Finish(p, outcome) == [p EXCEPT !.pc = "done", !.outcome = outcome]

\* what link.click() may do: return, or throw an error with this message
ClickErrors == {"The operation is insecure."}

\* the finally block of triggerStandardLegacyDownload
legacyFinally(p) ==
    [p EXCEPT !.dom = [anchorAttached |-> FALSE, urlLive |-> FALSE]]

\* the release written after link.click() in the try block, not in a finally
\* block: a click that throws leaves the anchor and the object URL behind
triggerStandardLegacyDownloadNoFinally(p, filename, content, mime) ==
    IF env.download
    THEN LET linked == [p EXCEPT !.dom = [anchorAttached |-> TRUE, urlLive |-> TRUE]]
             clicked == Invoke(linked, "click", filename, content, mime)
         IN  {Finish(legacyFinally(Console(Answer(clicked, "click", "ok"),
                                           "log", "legacyAttempt", <<>>)), "anchor")}
             \cup
             {Finish(Alert(Console(Answer(clicked, "click", "threw"),
                                   "error", "legacyClickError", <<>>),
                           "exportFailed", e), "clickFailed")
                : e \in ClickErrors}
    ELSE {Finish(Console(Alert(p, "unsupported", NoError),
                         "warn", "downloadNotSupported", content), "unsupported")}

\* the else branch with the warning alone: no alert, and csvContent not logged
triggerStandardLegacyDownloadQuietElse(p, filename, content, mime) ==
    IF env.download
    THEN LET linked == [p EXCEPT !.dom = [anchorAttached |-> TRUE, urlLive |-> TRUE]]
             clicked == Invoke(linked, "click", filename, content, mime)
         IN  {Finish(legacyFinally(Console(Answer(clicked, "click", "ok"),
                                           "log", "legacyAttempt", <<>>)), "anchor")}
             \cup
             {Finish(legacyFinally(Alert(Console(Answer(clicked, "click", "threw"),
                                                 "error", "legacyClickError", <<>>),
                                         "exportFailed", e)), "clickFailed")
                : e \in ClickErrors}
    ELSE {Finish(Console(p, "warn", "downloadNotSupported", <<>>), "unsupported")}

\* The outcomes of triggerStandardLegacyDownload(filename, csvContent, mimeType)
triggerStandardLegacyDownload(p, filename, content, mime) ==
    IF env.download
    THEN LET linked == [p EXCEPT !.dom = [anchorAttached |-> TRUE, urlLive |-> TRUE]]
             clicked == Invoke(linked, "click", filename, content, mime)
         IN  {Finish(legacyFinally(Console(Answer(clicked, "click", "ok"),
                                           "log", "legacyAttempt", <<>>)), "anchor")}
             \cup
             {Finish(legacyFinally(Alert(Console(Answer(clicked, "click", "threw"),
                                                 "error", "legacyClickError", <<>>),
                                         "exportFailed", e)), "clickFailed")
                : e \in ClickErrors}
    ELSE {Finish(Console(Alert(p, "unsupported", NoError),
                         "warn", "downloadNotSupported", content), "unsupported")}

\* attemptSaveWithDialogs(filename, csvContent, mimeType) up to its first await,
\* or to its end when there is no save picker
attemptSaveWithDialogs(p, filename, content, mime) ==
    LET q == [p EXCEPT !.dlg = [filename |-> filename, content |-> content,
                                mimeType |-> mime]]
    IN  IF env.showSaveFilePicker
        THEN {[Invoke(q, "showSaveFilePicker", filename, <<>>, mime)
                  EXCEPT !.pc = "showSaveFilePicker"]}
        ELSE triggerStandardLegacyDownload(
                 Console(q, "log", "fsApiNotSupported", <<>>), filename, content, mime)

\* the names of the errors a step of the save picker tier may fail with
PickerErrorNames == {"AbortError", "NotAllowedError"}

\* the catch block without its test of err.name: every error goes on to the
\* legacy download
pickerCatchNoAbortTest(p, errName) ==
    triggerStandardLegacyDownload(
        Console(p, "warn", "fsApiFailed", <<>>),
        p.dlg.filename, p.dlg.content, p.dlg.mimeType)

\* the catch block with an alert where the code only warns in the console
pickerCatchAlerts(p, errName) ==
    IF errName = "AbortError"
    THEN {Finish(Console(p, "log", "cancelledByUser", <<>>), "cancelled")}
    ELSE triggerStandardLegacyDownload(
             Alert(Console(p, "warn", "fsApiFailed", <<>>), "pickerFailed", errName),
             p.dlg.filename, p.dlg.content, p.dlg.mimeType)

\* the catch block of attemptSaveWithDialogs and what follows it
pickerCatch(p, errName) ==
    IF errName = "AbortError"
    THEN {Finish(Console(p, "log", "cancelledByUser", <<>>), "cancelled")}
    ELSE triggerStandardLegacyDownload(
             Console(p, "warn", "fsApiFailed", <<>>),
             p.dlg.filename, p.dlg.content, p.dlg.mimeType)

\* how the call window.pywebview.api.save_file(...) itself may behave
BridgeCallBehaviours == {"promise", "throws", "notAPromise"}

\* the guard without its length test: !rows
noRowsMissingOnly(rows) == rows.t = "null" \/ rows.t = "undefined"

\* !rows || rows.length === 0
noRows(rows) ==
    \/ rows.t = "null"
    \/ rows.t = "undefined"
    \/ (rows.t = "array" /\ Len(rows.items) = 0)

\* exportToCsv that leaves the id column out by deleting the id of every row
exportToCsvDeletingId(filename, rows) ==
    LET p == NewExport(filename, rows)
    IN  IF noRows(rows)
        THEN {[Finish(Console(p, "warn", "noData", <<>>), "noop")
                  EXCEPT !.result = "returned"]}
        ELSE LET c == csvContent(rows.items)
                 b == [p EXCEPT !.built = TRUE, !.content = c,
                                !.rows.items =
                                    [k \in 1..Len(@) |->
                                        SelectSeq(@[k], LAMBDA pr : pr[1] # id)]]
             IN  IF env.pywebview
                 THEN LET called == Invoke(Console(b, "log", "pywebviewDetected", <<>>),
                                           "save_file", filename, c, mimeType)
                      IN  { IF beh = "promise"
                            THEN [called EXCEPT !.pc = "save_file", !.result = "returned"]
                            ELSE [Finish(Answer(called, "save_file", beh), "threw")
                                     EXCEPT !.result = "threw"]
                              : beh \in BridgeCallBehaviours }
                 ELSE { [q EXCEPT !.result = "returned"] :
                          q \in attemptSaveWithDialogs(
                                   Console(b, "log", "notInPywebview", <<>>),
                                   filename, c, mimeType) }

\* The outcomes of the synchronous run of exportToCsv(filename, rows)
exportToCsv(filename, rows) ==
    LET p == NewExport(filename, rows)
    IN  IF noRows(rows)
        THEN {[Finish(Console(p, "warn", "noData", <<>>), "noop")
                  EXCEPT !.result = "returned"]}
        ELSE LET c == csvContent(rows.items)
                 b == [p EXCEPT !.built = TRUE, !.content = c]
             IN  IF env.pywebview
                 THEN LET called == Invoke(Console(b, "log", "pywebviewDetected", <<>>),
                                           "save_file", filename, c, mimeType)
                      IN  { IF beh = "promise"
                            THEN [called EXCEPT !.pc = "save_file", !.result = "returned"]
                            ELSE [Finish(Answer(called, "save_file", beh), "threw")
                                     EXCEPT !.result = "threw"]
                              : beh \in BridgeCallBehaviours }
                 ELSE { [q EXCEPT !.result = "returned"] :
                          q \in attemptSaveWithDialogs(
                                   Console(b, "log", "notInPywebview", <<>>),
                                   filename, c, mimeType) }

---------------------------------------------------------------------------
(* The record sequences exportToCsv is called with *)

\* an InvoiceItem with its properties in the order of the interface
Item(idv, d, inv, party, pan, part, taxable, vat, total, src, credit) ==
    << <<id, idv>>, <<date, d>>, <<invoiceNumber, inv>>, <<partyName, party>>,
       <<panOrVatNumber, pan>>, <<particulars, part>>, <<taxableAmount, taxable>>,
       <<vatAmount, vat>>, <<totalAmount, total>>, <<sourceFileName, src>>,
       <<vatCredit, credit>> >>

\* the same object without one property, and with the properties in reverse order
Without(obj, key) == SelectSeq(obj, LAMBDA pr : pr[1] # key)
Reversed(obj) == [i \in 1..Len(obj) |-> obj[Len(obj) + 1 - i]]

Id(n) == Str(<<IdChar>> \o NatToString(n))

\* the example record of the specification
ExampleRecord ==
    Item(Id(1),
         Str(<<"2", "0", "2", "4", "-", "0", "7", "-", "2", "0">>),
         Str(<<"I", "N", "V", "-", "1">>),
         Str(<<"E", "x", COMMA, " ", "I", "n", "c", ".">>),
         Str(<<>>),
         Str(<<"A", " ", DQUOTE, "s", "p", "e", "c", "i", "a", "l", DQUOTE, " ", "j", "o", "b">>),
         Num(100), Num(13), Num(113),
         Str(<<"a", ".", "p", "d", "f">>),
         Bool(TRUE))

\* every string cell holds s
AllStrings(s) ==
    Item(Id(2), Str(s), Str(s), Str(s), Str(s), Str(s),
         Num(0), Num(-5), Num(1200), Str(s), Bool(FALSE))

\* two neighbouring cells hold s1 and s2
TwoStrings(s1, s2) ==
    Item(Id(3), Str(<<"d">>), Str(s1), Str(s2), Str(<<"p">>), Str(<<"x">>),
         Num(100), Num(13), Num(113), Str(<<"f">>), Bool(TRUE))

\* what the vatCredit property may hold, and "absent" for no property
CreditValues ==
    {Bool(TRUE), Bool(FALSE), Undefined, Null, Num(1), Str(<<"t", "r", "u", "e">>)}

WithCredit(v) ==
    Item(Id(4), Str(<<"d">>), Str(<<"n">>), Str(<<"N", "/", "A">>), Str(<<"p">>),
         Str(<<"x">>), Num(100), Num(13), Num(113), Str(<<"f">>), v)

\* what the optional sourceFileName and the tax id may hold
OptionalValues == {Undefined, Null, Str(<<>>), Str(<<"f">>)}

WithOptionals(pan, src) ==
    Item(Id(5), Str(<<"d">>), Str(<<"n">>), Str(<<"N", "/", "A">>), pan,
         Str(<<"x">>), Num(100), Num(13), Num(113), src, Bool(TRUE))

\* an object with an id and nothing else
OnlyId == << <<id, Id(6)>> >>

\* a record with quotes and line breaks, its properties in reverse order
ReversedRecord ==
    Reversed(Item(Id(7), Str(<<LF, "a">>), Str(<<"n">>), Str(<<DQUOTE>>), Null,
                  Str(<<"a", CR>>), Num(7), Num(0), Num(7), Undefined, Bool(FALSE)))

Records ==
    {ExampleRecord, Reversed(ExampleRecord), OnlyId, ReversedRecord}
    \cup {AllStrings(s) : s \in StringsUpTo(MaxStrLen)}
    \cup {TwoStrings(s1, s2) : s1, s2 \in StringsUpTo(1)}
    \cup {WithCredit(v) : v \in CreditValues}
    \cup {Without(WithCredit(Undefined), vatCredit)}
    \cup {WithOptionals(pan, src) : pan, src \in OptionalValues}
    \cup {Without(Without(WithOptionals(Null, Null), sourceFileName), panOrVatNumber)}

\* the records the longer sequences are made of
CoreRecords == {ExampleRecord, ReversedRecord, OnlyId}

RECURSIVE SeqsUpTo(_, _)
SeqsUpTo(S, n) ==
    IF n = 0 THEN {<<>>}
    ELSE LET shorter == SeqsUpTo(S, n - 1)
         IN  shorter \cup {Append(s, x) : s \in shorter, x \in S}

\* the rows arguments: missing, empty, one record, several records
RowInputs ==
    {Null, Undefined}
    \cup {Arr(<<r>>) : r \in Records}
    \cup {Arr(s) : s \in SeqsUpTo(CoreRecords, MaxRows)}

Filenames == {"invoice_items_batch_2024-07-20.csv"}

---------------------------------------------------------------------------
(* What the capabilities answer *)

\* the value the save_file promise resolves to; error "" is a missing error
BridgeResults ==
    { [defined |-> TRUE, success |-> TRUE, error |-> NoError],
      [defined |-> TRUE, success |-> FALSE, error |-> "Permission denied"],
      [defined |-> TRUE, success |-> FALSE, error |-> NoError],
      [defined |-> FALSE, success |-> FALSE, error |-> NoError] }

\* the message of the error the save_file promise rejects with
BridgeErrors == {"bridge not ready"}

Envs == [pywebview : BOOLEAN, showSaveFilePicker : BOOLEAN, download : BOOLEAN]

---------------------------------------------------------------------------
(* The App component: its state and the extraction of invoice items *)

\* useState of App: the collection and the status of the last batch; with
\* them the upload batches started so far (the pending handleFileUpload
\* calls), the value of Date.now(), and the handler calls made so far
AppStart ==
    [ allInvoiceItems  |-> <<>>,
      processingStatus |-> [successfulFiles |-> <<>>, failedFiles |-> <<>>,
                            isProcessing |-> FALSE, totalFilesAttempted |-> 0],
      batches          |-> <<>>,
      now              |-> 0,
      asked            |-> <<>>,
      flagChanges      |-> 0,
      lastChange       |-> [itemId |-> <<>>, checked |-> FALSE] ]

NA == <<"N", "/", "A">>

\* is the value falsy
Falsy(v) ==
    \/ v.t \in {"undefined", "null"}
    \/ (v.t = "string" /\ v.s = <<>>)
    \/ (v.t = "number" /\ v.n = 0)
    \/ (v.t = "boolean" /\ ~v.b)

\* a || b
Or(a, b) == IF Falsy(a) THEN b ELSE a

RECURSIVE DigitsToNat(_)
DigitsToNat(s) ==
    IF s = <<>> THEN 0
    ELSE 10 * DigitsToNat(SubSeq(s, 1, Len(s) - 1))
         + (CHOOSE d \in 0..9 : Digits[d + 1] = s[Len(s)])

\* Number(value) of a number or of a string of decimal digits
Number(v) == IF v.t = "number" THEN v ELSE Num(DigitsToNat(v.s))

\* { ...obj, [key]: value }: the value replaced where the property is, the
\* property added at the end where it is not
Spread(obj, key, value) ==
    IF \E i \in 1..Len(obj) : obj[i][1] = key
    THEN [i \in 1..Len(obj) |-> IF obj[i][1] = key THEN <<key, value>> ELSE obj[i]]
    ELSE Append(obj, <<key, value>>)

\* `${file.name}-${Date.now()}-item-${index}`
uniqueId(fileName, now, index) ==
    fileName \o <<"-">> \o NatToString(now)
    \o <<"-", "i", "t", "e", "m", "-">> \o NatToString(index)

\* the InvoiceItem made of one summary of the model's answer
invoiceItem(rawSummary, fileName, now, index) ==
    << <<id, Str(uniqueId(fileName, now, index))>>,
       <<date, Str(String(Or(Get(rawSummary, date), Str(NA))))>>,
       <<invoiceNumber, Str(String(Or(Get(rawSummary, invoiceNumber), Str(NA))))>>,
       <<partyName, Str(String(Or(Get(rawSummary, partyName), Str(NA))))>>,
       <<particulars, Str(String(Or(Get(rawSummary, particulars), Str(NA))))>>,
       <<taxableAmount, Number(Or(Get(rawSummary, taxableAmount), Num(0)))>>,
       <<vatAmount, Number(Or(Get(rawSummary, vatAmount), Num(0)))>>,
       <<totalAmount, Number(Or(Get(rawSummary, totalAmount), Num(0)))>>,
       <<sourceFileName, Str(fileName)>> >>

\* the test of the filter: the item is completely empty
emptyItem(item) ==
    /\ Get(item, date) = Str(NA)
    /\ Get(item, invoiceNumber) = Str(NA)
    /\ Get(item, partyName) = Str(NA)
    /\ Get(item, particulars) = Str(NA)
    /\ Get(item, totalAmount) = Num(0)
    /\ Get(item, taxableAmount) = Num(0)
    /\ Get(item, vatAmount) = Num(0)

\* the items extractActualInvoiceData resolves with, for the array of
\* summaries the model has answered
invoiceItems(extractedDataArray, fileName, now) ==
    SelectSeq([k \in 1..Len(extractedDataArray) |->
                  invoiceItem(extractedDataArray[k], fileName, now, k - 1)],
              LAMBDA item : ~emptyItem(item))

---------------------------------------------------------------------------
(* Actions *)

Init ==
    /\ env \in Envs
    /\ exports = <<>>
    /\ app = AppStart

Step(i, q) ==
    /\ exports' = [exports EXCEPT ![i] = q]
    /\ UNCHANGED <<env, app>>

\* a caller calls exportToCsv(filename, rows); at most `limit` calls are made
Call(limit, inputs) ==
    /\ Len(exports) < limit
    /\ \E filename \in Filenames, rows \in inputs :
         \E q \in exportToCsv(filename, rows) :
            exports' = Append(exports, q)
    /\ UNCHANGED <<env, app>>

\* the .then handler without its else: the fallback also follows a success
save_file_thenAlwaysFallback(i) ==
    /\ exports[i].pc = "save_file"
    /\ \E result \in BridgeResults :
         LET p == Answer(exports[i], "save_file",
                         IF result.defined /\ result.success THEN "success" ELSE "failure")
         IN  \E q \in attemptSaveWithDialogs(p, p.filename, p.content, mimeType) :
                Step(i, q)

\* the .then handler that throws after its fallback, so that the .catch
\* handler of the chain runs its fallback as well
save_file_thenAndCatch(i) ==
    /\ exports[i].pc = "save_file"
    /\ \E result \in BridgeResults :
         LET p == Answer(exports[i], "save_file",
                         IF result.defined /\ result.success THEN "success" ELSE "failure")
         IN  IF result.defined /\ result.success
             THEN Step(i, Finish(Console(p, "log", "sentToPython", <<>>), "bridge"))
             ELSE LET pythonError == IF result.defined /\ result.error # NoError
                                     THEN result.error
                                     ELSE "Unknown error from Python side."
                      told == Alert(Console(p, "error", "pythonReportedIssue", <<>>),
                                    "pythonFailed", pythonError)
                  IN  \E q \in attemptSaveWithDialogs(told, p.filename, p.content, mimeType) :
                         \E r \in attemptSaveWithDialogs(
                                      Alert(Console(q, "error", "bridgeCallError", <<>>),
                                            "bridgeError", NoError),
                                      p.filename, p.content, mimeType) :
                            Step(i, r)

\* the .then handler of the save_file promise
save_file_then(i) ==
    /\ exports[i].pc = "save_file"
    /\ \E result \in BridgeResults :
         LET p == Answer(exports[i], "save_file",
                         IF result.defined /\ result.success THEN "success" ELSE "failure")
         IN  IF result.defined /\ result.success
             THEN Step(i, Finish(Console(p, "log", "sentToPython", <<>>), "bridge"))
             ELSE LET pythonError == IF result.defined /\ result.error # NoError
                                     THEN result.error
                                     ELSE "Unknown error from Python side."
                      told == Alert(Console(p, "error", "pythonReportedIssue", <<>>),
                                    "pythonFailed", pythonError)
                  IN  \E q \in attemptSaveWithDialogs(told, p.filename, p.content, mimeType) :
                         Step(i, q)

\* the .catch handler without its last statement: the alert, and no fallback
save_file_catchNoFallback(i) ==
    /\ exports[i].pc = "save_file"
    /\ \E error \in BridgeErrors :
         LET p == Answer(exports[i], "save_file", "rejected")
             told == Alert(Console(p, "error", "bridgeCallError", <<>>),
                           "bridgeError", NoError)
         IN  Step(i, Finish(told, "bridgeFailed"))

\* the .catch handler of the save_file promise
save_file_catch(i) ==
    /\ exports[i].pc = "save_file"
    /\ \E error \in BridgeErrors :
         LET p == Answer(exports[i], "save_file", "rejected")
             told == Alert(Console(p, "error", "bridgeCallError", <<>>),
                           "bridgeError", NoError)
         IN  \E q \in attemptSaveWithDialogs(told, p.filename, p.content, mimeType) :
                Step(i, q)

\* await window.showSaveFilePicker(...) settles
showSaveFilePicker_settled(i) ==
    /\ exports[i].pc = "showSaveFilePicker"
    /\ LET p == exports[i]
           ok == Answer(p, "showSaveFilePicker", "ok")
       IN  \/ Step(i, [Invoke(ok, "createWritable", "", <<>>, "")
                          EXCEPT !.pc = "createWritable"])
           \/ \E e \in PickerErrorNames : \E q \in pickerCatch(Answer(p, "showSaveFilePicker", e), e) : Step(i, q)

\* the parameters of attemptSaveWithDialogs kept in one slot of the module
\* instead of in the call's own frame: the slot holds those of the last call
createWritable_settledSharedSlot(i) ==
    /\ exports[i].pc = "createWritable"
    /\ LET p == exports[i]
           slot == exports[Len(exports)].dlg
           ok == Answer(p, "createWritable", "ok")
       IN  \/ Step(i, [Invoke(ok, "write", "", slot.content, slot.mimeType)
                          EXCEPT !.pc = "write"])
           \/ \E e \in PickerErrorNames : \E q \in pickerCatch(Answer(p, "createWritable", e), e) : Step(i, q)

\* await handle.createWritable() settles
createWritable_settled(i) ==
    /\ exports[i].pc = "createWritable"
    /\ LET p == exports[i]
           ok == Answer(p, "createWritable", "ok")
       IN  \/ Step(i, [Invoke(ok, "write", "", p.dlg.content, p.dlg.mimeType)
                          EXCEPT !.pc = "write"])
           \/ \E e \in PickerErrorNames : \E q \in pickerCatch(Answer(p, "createWritable", e), e) : Step(i, q)

\* await writable.write(...) settles
write_settled(i) ==
    /\ exports[i].pc = "write"
    /\ LET p == exports[i]
           ok == Answer(p, "write", "ok")
       IN  \/ Step(i, [Invoke(ok, "close", "", <<>>, "") EXCEPT !.pc = "close"])
           \/ \E e \in PickerErrorNames : \E q \in pickerCatch(Answer(p, "write", e), e) : Step(i, q)

\* await writable.close() settles
close_settled(i) ==
    /\ exports[i].pc = "close"
    /\ LET p == exports[i]
           ok == Answer(p, "close", "ok")
       IN  \/ Step(i, Finish(Console(ok, "log", "savedWithFsApi", <<>>), "picker"))
           \/ \E e \in PickerErrorNames : \E q \in pickerCatch(Answer(p, "close", e), e) : Step(i, q)

\* one exportToCsv call with any of the generated record sequences
ExportCall == Call(1, RowInputs)

BridgeResolved == \E i \in DOMAIN exports : save_file_then(i)
BridgeRejected == \E i \in DOMAIN exports : save_file_catch(i)
PickerSettled == \E i \in DOMAIN exports : showSaveFilePicker_settled(i)
WritableSettled == \E i \in DOMAIN exports : createWritable_settled(i)
WriteSettled == \E i \in DOMAIN exports : write_settled(i)
CloseSettled == \E i \in DOMAIN exports : close_settled(i)

Next ==
    \/ ExportCall
    \/ BridgeResolved
    \/ BridgeRejected
    \/ PickerSettled
    \/ WritableSettled
    \/ WriteSettled
    \/ CloseSettled

Spec == Init /\ [][Next]_vars

\* The text exportToCsv builds: one call, followed up to the end of the
\* synchronous run of exportToCsv.
FormatSpec == Init /\ [][ExportCall]_vars

\* the record sequences of the calls that are repeated
RepeatInputs ==
    {Arr(<<ExampleRecord>>), Arr(<<ReversedRecord, ExampleRecord>>), Arr(<<>>)}

\* two exportToCsv calls, the second at any moment after the first
TwoCalls == Call(2, RepeatInputs)

RepeatNext ==
    \/ TwoCalls
    \/ BridgeResolved
    \/ BridgeRejected
    \/ PickerSettled
    \/ WritableSettled
    \/ WriteSettled
    \/ CloseSettled

RepeatSpec == Init /\ [][RepeatNext]_vars

\* the filenames of the two exports of the application: all items, and the
\* items with VAT credit
AppFilenames ==
    {"invoice_items_batch_2024-07-20.csv", "vat_return_items_2024-07-20.csv"}

\* the record sequences of the two exports
BackToBackInputs == {Arr(<<ExampleRecord, OnlyId>>), Arr(<<ExampleRecord>>)}

\* the caller triggers two exports back to back: the second exportToCsv call
\* is made at any moment of the delivery chain of the first
BackToBackCalls ==
    /\ Len(exports) < 2
    /\ \E filename \in AppFilenames, rows \in BackToBackInputs :
         \E q \in exportToCsv(filename, rows) :
            exports' = Append(exports, q)
    /\ UNCHANGED <<env, app>>

InterleaveNext ==
    \/ BackToBackCalls
    \/ BridgeResolved
    \/ BridgeRejected
    \/ PickerSettled
    \/ WritableSettled
    \/ WriteSettled
    \/ CloseSettled

InterleaveSpec == Init /\ [][InterleaveNext]_vars

---------------------------------------------------------------------------
(* The handlers of the App component *)

FileNames == {<<"a">>, <<"b">>}

\* the file lists of an upload batch: one file or more, names may repeat;
\* the first file is named a (the lists that begin with b are the same lists
\* with the two names exchanged)
FileLists == {files \in SeqsUpTo(FileNames, MaxFiles) : files # <<>> /\ files[1] = <<"a">>}

\* a summary with every field, one with a total alone (as a string of
\* digits), and one with nothing
FullSummary ==
    << <<date, Str(<<"d">>)>>, <<invoiceNumber, Str(<<"n">>)>>,
       <<partyName, Str(<<"E", "x", COMMA, " ", "I", "n", "c", ".">>)>>,
       <<panOrVatNumber, Str(<<"9">>)>>, <<particulars, Str(<<"x">>)>>,
       <<taxableAmount, Num(100)>>, <<vatAmount, Num(13)>>, <<totalAmount, Num(113)>> >>

TotalOnlySummary ==
    << <<date, Null>>, <<partyName, Str(<<>>)>>, <<taxableAmount, Num(0)>>,
       <<totalAmount, Str(<<"1", "2">>)>> >>

EmptySummary == <<>>

\* the arrays of summaries the model answers with
ExtractedDataArrays ==
    {<<FullSummary>>, <<EmptySummary, TotalOnlySummary>>}

\* the messages of the errors an extraction is rejected with
ExtractionErrors ==
    {"Failed to extract data from invoice document: Gemini API Key is not valid, missing, or lacks permissions."}

\* errorMessage.toLowerCase().includes("api key") || ...includes("api_key")
aboutApiKey(message) ==
    message = "Failed to extract data from invoice document: Gemini API Key is not valid, missing, or lacks permissions."

Pending == [status |-> "pending"]

\* handleFileUpload that empties the collection when a batch is started
handleFileUpload_startReset(limit, fileLists) ==
    /\ Len(app.batches) < limit
    /\ \E files \in fileLists :
         app' = [app EXCEPT
                   !.allInvoiceItems = <<>>,
                   !.processingStatus =
                       [successfulFiles |-> <<>>, failedFiles |-> <<>>,
                        isProcessing |-> TRUE, totalFilesAttempted |-> Len(files)],
                   !.batches = Append(@, [files |-> files,
                                          results |-> [k \in 1..Len(files) |-> Pending],
                                          done |-> FALSE])]
    /\ UNCHANGED <<env, exports>>

\* handleFileUpload(files) with files, up to its await; at most `limit`
\* batches are started
handleFileUpload_start(limit, fileLists) ==
    /\ Len(app.batches) < limit
    /\ \E files \in fileLists :
         app' = [app EXCEPT
                   !.processingStatus =
                       [successfulFiles |-> <<>>, failedFiles |-> <<>>,
                        isProcessing |-> TRUE, totalFilesAttempted |-> Len(files)],
                   !.batches = Append(@, [files |-> files,
                                          results |-> [k \in 1..Len(files) |-> Pending],
                                          done |-> FALSE])]
    /\ UNCHANGED <<env, exports>>

\* handleFileUpload([]): the selection was cleared, or held no supported file
handleFileUpload_empty ==
    /\ app' = IF app.processingStatus.totalFilesAttempted > 0
                 /\ ~app.processingStatus.isProcessing
              THEN app
              ELSE IF ~app.processingStatus.isProcessing
              THEN [app EXCEPT !.processingStatus =
                       [successfulFiles |-> <<>>, failedFiles |-> <<>>,
                        isProcessing |-> FALSE, totalFilesAttempted |-> 0]]
              ELSE app
    /\ UNCHANGED <<env, exports>>

\* extractActualInvoiceData(files[k]) of batch b resolves
extraction_fulfilled(b, k, answers) ==
    /\ app.batches[b].results[k] = Pending
    /\ \E extractedDataArray \in answers :
         app' = [app EXCEPT !.batches[b].results[k] =
                    [status |-> "fulfilled",
                     items |-> invoiceItems(extractedDataArray,
                                            app.batches[b].files[k], app.now)]]
    /\ UNCHANGED <<env, exports>>

\* extractActualInvoiceData(files[k]) of batch b rejects
extraction_rejected(b, k, errors) ==
    /\ app.batches[b].results[k] = Pending
    /\ \E message \in errors :
         app' = [app EXCEPT !.batches[b].results[k] =
                    [status |-> "rejected", message |-> message]]
    /\ UNCHANGED <<env, exports>>

RECURSIVE newItemsFromThisBatch(_, _)
\* the items of the fulfilled results, each with the name of its file and
\* vatCredit false, in the order of the files
newItemsFromThisBatch(files, results) ==
    IF files = <<>> THEN <<>>
    ELSE (IF Head(results).status = "fulfilled"
          THEN [n \in 1..Len(Head(results).items) |->
                   Spread(Spread(Head(results).items[n], sourceFileName, Str(Head(files))),
                          vatCredit, Bool(FALSE))]
          ELSE <<>>)
         \o newItemsFromThisBatch(Tail(files), Tail(results))

Indexes(results, status) ==
    SelectSeq([k \in 1..Len(results) |-> k], LAMBDA k : results[k].status = status)

newSuccessfulFiles(files, results) ==
    LET at == Indexes(results, "fulfilled")
    IN  [n \in 1..Len(at) |-> files[at[n]]]

newFailedFiles(files, results) ==
    LET at == Indexes(results, "rejected")
    IN  [n \in 1..Len(at) |->
           [fileName |-> files[at[n]],
            error |-> IF aboutApiKey(results[at[n]].message)
                      THEN "Error with Gemini API Key. Please ensure it's correctly configured."
                      ELSE results[at[n]].message]]

\* Promise.all in the place of Promise.allSettled: with a rejected extraction
\* the await throws, and nothing after it is run
handleFileUpload_settledAll(b) ==
    /\ ~app.batches[b].done
    /\ \A k \in 1..Len(app.batches[b].files) : app.batches[b].results[k] # Pending
    /\ LET files == app.batches[b].files
           results == app.batches[b].results
       IN  IF \E k \in 1..Len(files) : results[k].status = "rejected"
           THEN app' = [app EXCEPT !.batches[b].done = TRUE]
           ELSE app' = [app EXCEPT
                          !.allInvoiceItems = @ \o newItemsFromThisBatch(files, results),
                          !.processingStatus =
                              [successfulFiles |-> newSuccessfulFiles(files, results),
                               failedFiles |-> newFailedFiles(files, results),
                               isProcessing |-> FALSE,
                               totalFilesAttempted |-> Len(files)],
                          !.batches[b].done = TRUE]
    /\ UNCHANGED <<env, exports>>

\* Promise.allSettled of batch b has resolved: handleFileUpload after its await
handleFileUpload_settled(b) ==
    /\ ~app.batches[b].done
    /\ \A k \in 1..Len(app.batches[b].files) : app.batches[b].results[k] # Pending
    /\ LET files == app.batches[b].files
           results == app.batches[b].results
       IN  app' = [app EXCEPT
                     !.allInvoiceItems = @ \o newItemsFromThisBatch(files, results),
                     !.processingStatus =
                         [successfulFiles |-> newSuccessfulFiles(files, results),
                          failedFiles |-> newFailedFiles(files, results),
                          isProcessing |-> FALSE,
                          totalFilesAttempted |-> Len(files)],
                     !.batches[b].done = TRUE]
    /\ UNCHANGED <<env, exports>>

\* time passes: Date.now() gives a later value
Tick ==
    /\ app.now < MaxClock
    /\ app' = [app EXCEPT !.now = @ + 1]
    /\ UNCHANGED <<env, exports>>

\* the changed item written without the spread of the old one
handleVatCreditChangeNoSpread(limit, itemId, checked) ==
    /\ app.flagChanges < limit
    /\ app' = [app EXCEPT
                 !.allInvoiceItems =
                     [k \in 1..Len(@) |->
                         IF Get(@[k], id) = Str(itemId)
                         THEN << <<id, Get(@[k], id)>>, <<vatCredit, Bool(checked)>> >>
                         ELSE @[k]],
                 !.flagChanges = @ + 1,
                 !.lastChange = [itemId |-> itemId, checked |-> checked]]
    /\ UNCHANGED <<env, exports>>

\* handleVatCreditChange(itemId, checked); at most `limit` changes are made
handleVatCreditChange(limit, itemId, checked) ==
    /\ app.flagChanges < limit
    /\ app' = [app EXCEPT
                 !.allInvoiceItems =
                     [k \in 1..Len(@) |->
                         IF Get(@[k], id) = Str(itemId)
                         THEN Spread(@[k], vatCredit, Bool(checked))
                         ELSE @[k]],
                 !.flagChanges = @ + 1,
                 !.lastChange = [itemId |-> itemId, checked |-> checked]]
    /\ UNCHANGED <<env, exports>>

\* the ids of the rows of the table, and an id no row has
ShownIds == {Get(app.allInvoiceItems[k], id).s : k \in 1..Len(app.allInvoiceItems)}
UnknownId == <<"?">>

StartBatch == handleFileUpload_start(MaxBatches, FileLists)
EmptyBatch == handleFileUpload_empty

ExtractionResolves ==
    \E b \in DOMAIN app.batches : \E k \in DOMAIN app.batches[b].files :
        extraction_fulfilled(b, k, ExtractedDataArrays)

ExtractionRejects ==
    \E b \in DOMAIN app.batches : \E k \in DOMAIN app.batches[b].files :
        extraction_rejected(b, k, ExtractionErrors)

BatchSettles == \E b \in DOMAIN app.batches : handleFileUpload_settled(b)

\* the table is rendered: {!processingStatus.isProcessing && allInvoiceItems.length > 0 && ...}
TableShown == ~app.processingStatus.isProcessing /\ Len(app.allInvoiceItems) > 0

\* the user clicks the checkbox of row k: handleCheckboxChange(item.id, e)
\* with e.target.checked the opposite of what the checkbox showed
FlagChanged ==
    /\ TableShown
    /\ \E k \in 1..Len(app.allInvoiceItems) :
          handleVatCreditChange(MaxFlagChanges, Get(app.allInvoiceItems[k], id).s,
                                Falsy(Get(app.allInvoiceItems[k], vatCredit)))

UploadNext ==
    \/ StartBatch
    \/ EmptyBatch
    \/ ExtractionResolves
    \/ ExtractionRejects
    \/ BatchSettles
    \/ FlagChanged
    \/ Tick

\* the page is opened in a plain browser
UploadInit ==
    /\ env = [pywebview |-> FALSE, showSaveFilePicker |-> FALSE, download |-> TRUE]
    /\ exports = <<>>
    /\ app = AppStart

\* Upload batches, overlapping or not, and flag changes between them
UploadSpec == UploadInit /\ [][UploadNext]_vars

---------------------------------------------------------------------------
(* The export buttons of the App component *)

\* the positions of the items allInvoiceItems.filter(item => item.vatCredit) keeps
RECURSIVE vatCreditPositions(_, _)
vatCreditPositions(items, k) ==
    IF k > Len(items) THEN <<>>
    ELSE (IF Falsy(Get(items[k], vatCredit)) THEN <<>> ELSE <<k>>)
         \o vatCreditPositions(items, k + 1)

\* The array handed to exportToCsv holds the item objects of the state, not
\* copies of them: what the call has done to the item at place j of its rows
\* it has done to the item at place positions[j] of the collection.
itemsAfterCall(items, positions, rowsAfter) ==
    [k \in 1..Len(items) |->
        IF \E j \in 1..Len(positions) : positions[j] = k /\ j <= Len(rowsAfter)
        THEN rowsAfter[CHOOSE j \in 1..Len(positions) : positions[j] = k]
        ELSE items[k]]

\* a handler has called exportToCsv(filename, the items at these positions)
exportCalled(handler, filename, positions) ==
    LET handed == [j \in 1..Len(positions) |-> app.allInvoiceItems[positions[j]]]
    IN  \E q \in exportToCsv(filename, Arr(handed)) :
           /\ exports' = Append(exports, q)
           /\ app' = [app EXCEPT
                        !.allInvoiceItems = itemsAfterCall(@, positions, q.rows.items),
                        !.asked = Append(@, [handler |-> handler,
                                             collection |-> app.allInvoiceItems,
                                             export |-> Len(exports) + 1])]

\* a handler has returned without a call of exportToCsv
exportNotCalled(handler) ==
    /\ exports' = exports
    /\ app' = [app EXCEPT !.asked = Append(@, [handler |-> handler,
                                                collection |-> app.allInvoiceItems,
                                                export |-> 0])]

\* handleDownloadCsv(); at most `limit` clicks on export buttons are made
handleDownloadCsv(limit) ==
    /\ Len(app.asked) < limit
    /\ IF Len(app.allInvoiceItems) > 0
       THEN exportCalled("handleDownloadCsv", "invoice_items_batch_2024-07-20.csv",
                         [k \in 1..Len(app.allInvoiceItems) |-> k])
       ELSE exportNotCalled("handleDownloadCsv")
    /\ UNCHANGED env

\* handleProceedVatReturn that hands over the collection, not the filtered items
handleProceedVatReturnUnfiltered(limit) ==
    /\ Len(app.asked) < limit
    /\ LET vatCreditItems == [k \in 1..Len(app.allInvoiceItems) |-> k]
       IN  IF Len(vatCreditItems) > 0
           THEN exportCalled("handleProceedVatReturn", "vat_return_items_2024-07-20.csv",
                             vatCreditItems)
           ELSE exportNotCalled("handleProceedVatReturn")
    /\ UNCHANGED env

\* handleProceedVatReturn()
handleProceedVatReturn(limit) ==
    /\ Len(app.asked) < limit
    /\ LET vatCreditItems == vatCreditPositions(app.allInvoiceItems, 1)
       IN  IF Len(vatCreditItems) > 0
           THEN exportCalled("handleProceedVatReturn", "vat_return_items_2024-07-20.csv",
                             vatCreditItems)
           ELSE exportNotCalled("handleProceedVatReturn")
    /\ UNCHANGED env

\* one batch of two files is uploaded
UploadOfTwo == handleFileUpload_start(1, {<<<<"a">>, <<"b">>>>})

\* handleCheckboxChange for the id of a row, or for an id no row has, with
\* e.target.checked either way
CheckboxChanged ==
    /\ TableShown
    /\ \E itemId \in ShownIds \cup {UnknownId}, checked \in BOOLEAN :
          handleVatCreditChange(MaxClicks, itemId, checked)

\* The handlers carry their own test of what there is to export: they are
\* taken in every state, also where the button is hidden or disabled.
DownloadAllClicked == handleDownloadCsv(MaxExports)
VatReturnClicked == handleProceedVatReturn(MaxExports)

AppNext ==
    \/ UploadOfTwo
    \/ ExtractionResolves
    \/ BatchSettles
    \/ CheckboxChanged
    \/ DownloadAllClicked
    \/ VatReturnClicked
    \/ BridgeResolved
    \/ BridgeRejected
    \/ PickerSettled
    \/ WritableSettled
    \/ WriteSettled
    \/ CloseSettled

\* An upload, flag changes and exports of the collection, on every host
AppSpec == Init /\ [][AppNext]_vars

---------------------------------------------------------------------------
(* A reader of RFC 4180 text, to state what the CSV text means to its readers *)

\* The text as read so far: the records completed, the cells of the record
\* being read, the cell being read, and where in a cell the reader is:
\* "record" (a record starts), "cell" (a cell starts after a comma), "plain"
\* (in an unquoted cell), "quoted" (in a quoted cell), "quote" (after a
\* double quote met in a quoted cell) or "bad" (the text is not RFC 4180).
ReaderStart == [records |-> <<>>, cells |-> <<>>, cell |-> <<>>, at |-> "record"]

EndCell(r) == [r EXCEPT !.cells = Append(@, r.cell), !.cell = <<>>, !.at = "cell"]
EndRecord(r) ==
    [r EXCEPT !.records = Append(@, Append(r.cells, r.cell)),
              !.cells = <<>>, !.cell = <<>>, !.at = "record"]
Take(r, c, at) == [r EXCEPT !.cell = Append(@, c), !.at = at]
Bad(r) == [r EXCEPT !.at = "bad"]

\* the reader after one more character; "cr" is after a carriage return
\* that is not in a quoted cell
ReadChar(r, c) ==
    IF r.at = "bad" THEN r
    ELSE IF r.at = "quoted"
    THEN (IF c = DQUOTE THEN [r EXCEPT !.at = "quote"] ELSE Take(r, c, "quoted"))
    ELSE IF r.at = "cr"
    THEN (IF c = LF THEN EndRecord(r) ELSE Bad(r))
    ELSE IF c = DQUOTE
    THEN (IF r.at = "quote" THEN Take(r, DQUOTE, "quoted")
          ELSE IF r.at = "plain" THEN Bad(r)
          ELSE [r EXCEPT !.at = "quoted"])
    ELSE IF c = COMMA THEN EndCell(r)
    ELSE IF c = CR THEN [r EXCEPT !.at = "cr"]
    ELSE IF c = LF \/ r.at = "quote" THEN Bad(r)
    ELSE Take(r, c, "plain")

RECURSIVE Read(_, _, _, _)
\* the reader after the characters lo..hi of the text
Read(text, lo, hi, r) ==
    IF lo > hi THEN r
    ELSE IF lo = hi THEN ReadChar(r, text[lo])
    ELSE LET mid == (lo + hi) \div 2
             left == Read(text, lo, mid, r)
         IN  IF left.at = "bad" THEN left ELSE Read(text, mid + 1, hi, left)

\* the reader at the end of the text
ReadEnd(r) ==
    IF r.at \in {"bad", "record"} THEN r    \* "record": the text ended with a line break
    ELSE IF r.at \in {"quoted", "cr"} THEN Bad(r)
    ELSE EndRecord(r)

\* the records of the text, each a sequence of cell strings; <<"bad">> stands
\* for a text that is not RFC 4180
ReadCsv(text) ==
    LET r == ReadEnd(Read(text, 1, Len(text), ReaderStart))
    IN  IF r.at = "bad" THEN <<"bad">> ELSE r.records

---------------------------------------------------------------------------
(* What the claims speak of *)

Built == {i \in DOMAIN exports : exports[i].built}
Rows(i) == exports[i].rows.items
Fns(p) == [k \in 1..Len(p.calls) |-> p.calls[k].fn]

\* the text of a cell before quoting: nothing for an absent value, TRUE or
\* FALSE for a boolean, the string itself, the decimal form of a number
TextOf(v) ==
    IF v.t \in {"null", "undefined"} THEN <<>>
    ELSE IF v.t = "boolean"
    THEN (IF v.b THEN <<"T", "R", "U", "E">> ELSE <<"F", "A", "L", "S", "E">>)
    ELSE String(v)

\* the records a reader of RFC 4180 finds in the text of export i
Parsed(i) == ReadCsv(exports[i].content)

EndsWithLineBreak(text) ==
    Len(text) >= 2 /\ text[Len(text) - 1] = CR /\ text[Len(text)] = LF

---------------------------------------------------------------------------
(* C1: exportToCsv called with an empty or missing record sequence makes no
   file and has no effect but one logged warning: no delivery tier is
   invoked, no alert is shown, nothing is left in the document, and the call
   returns normally. *)
C1_EmptyInputIsNoOp ==
    \A i \in DOMAIN exports :
        LET p == exports[i]
        IN  (p.rows \in {Null, Undefined, Arr(<<>>)}) =>
                /\ p.result = "returned"
                /\ p.pc = "done"
                /\ ~p.built
                /\ p.content = <<>>
                /\ p.calls = <<>>
                /\ p.alerts = <<>>
                /\ p.answers = <<>>
                /\ p.dom = [anchorAttached |-> FALSE, urlLive |-> FALSE]
                /\ Len(p.console) = 1
                /\ p.console[1].level = "warn"

C1_Witness ==
    /\ \E i \in DOMAIN exports : exports[i].rows = Arr(<<>>) /\ exports[i].result = "returned"
    /\ env.pywebview /\ env.showSaveFilePicker /\ env.download

(* C2: for a non-empty record sequence the CSV text is the header row and
   then one row per record in input order (row i+1 is the row of records[i]),
   so a reader finds records.length + 1 rows, and the text ends with a line
   break: every row, the header and the last one included, is terminated by
   CRLF. *)
C2_OneRowPerRecordInOrder ==
    \A i \in Built :
        LET rows == Rows(i)
            parsed == Parsed(i)
        IN  /\ Len(parsed) = Len(rows) + 1
            /\ EndsWithLineBreak(exports[i].content)
            /\ \A k \in 1..Len(rows) : <<parsed[k + 1]>> = ReadCsv(line(rows[k]))

C2_Witness ==
    \E i \in Built :
        /\ Rows(i) = <<ReversedRecord, ExampleRecord>>
        /\ exports[i].pc = "done"

\* the columns of a row, in the order the specification gives them
ColumnOrder ==
    <<date, invoiceNumber, partyName, panOrVatNumber, particulars,
      taxableAmount, vatAmount, totalAmount, sourceFileName, vatCredit>>

(* C3: every data row has exactly ten cells, in the order date, invoice
   number, party name, tax id number, particulars, taxable amount, tax
   amount, total amount, source file name, tax credit flag, whatever the
   order of the record's properties; the record's id is written to no cell. *)
C3_TenCellsInFixedOrder ==
    \A i \in Built :
        LET parsed == Parsed(i)
        IN  /\ Len(parsed) = Len(Rows(i)) + 1
            /\ \A k \in 1..Len(Rows(i)) :
                  LET row == Rows(i)[k]
                      cells == parsed[k + 1]
                  IN  /\ Len(cells) = 10
                      /\ \A c \in 1..9 : cells[c] = TextOf(Get(row, ColumnOrder[c]))
                      /\ cells[10] \in {<<"T", "R", "U", "E">>, <<"F", "A", "L", "S", "E">>}
            /\ \A n \in 1..Len(exports[i].content) : exports[i].content[n] # IdChar

C3_Witness ==
    \E i \in Built :
        /\ Reversed(ExampleRecord) \in {Rows(i)[k] : k \in 1..Len(Rows(i))}
        /\ Get(Rows(i)[1], id) = Id(1)

\* the header line with the column names of the specification
ClaimedHeader ==
    <<"d", "a", "t", "e", COMMA, "i", "n", "v", "o", "i", "c", "e", "N",
    "u", "m", "b", "e", "r", COMMA, "p", "a", "r", "t", "y", "N",
    "a", "m", "e", COMMA, "t", "a", "x", "I", "d", "N", "u", "m",
    "b", "e", "r", COMMA, "p", "a", "r", "t", "i", "c", "u", "l",
    "a", "r", "s", COMMA, "t", "a", "x", "a", "b", "l", "e", "A",
    "m", "o", "u", "n", "t", COMMA, "t", "a", "x", "A", "m", "o",
    "u", "n", "t", COMMA, "t", "o", "t", "a", "l", "A", "m", "o",
    "u", "n", "t", COMMA, "s", "o", "u", "r", "c", "e", "F", "i",
    "l", "e", "N", "a", "m", "e", COMMA, "t", "a", "x", "C", "r",
    "e", "d", "i", "t", "F", "l", "a", "g">>

(* C4: the first line of the CSV text is the header line.  As claimed, its
   column names are date, invoiceNumber, partyName, taxIdNumber, particulars,
   taxableAmount, taxAmount, totalAmount, sourceFileName, taxCreditFlag,
   joined by commas, with no trailing comma and no byte-order mark. *)
C4_HeaderAsClaimed ==
    \A i \in Built :
        /\ Len(exports[i].content) >= Len(ClaimedHeader) + 2
        /\ SubSeq(exports[i].content, 1, Len(ClaimedHeader) + 2) = ClaimedHeader \o CRLF

\* the header line with the property names of InvoiceItem
EmittedHeader ==
    <<"d", "a", "t", "e", COMMA, "i", "n", "v", "o", "i", "c", "e", "N",
    "u", "m", "b", "e", "r", COMMA, "p", "a", "r", "t", "y", "N",
    "a", "m", "e", COMMA, "p", "a", "n", "O", "r", "V", "a", "t",
    "N", "u", "m", "b", "e", "r", COMMA, "p", "a", "r", "t", "i",
    "c", "u", "l", "a", "r", "s", COMMA, "t", "a", "x", "a", "b",
    "l", "e", "A", "m", "o", "u", "n", "t", COMMA, "v", "a", "t",
    "A", "m", "o", "u", "n", "t", COMMA, "t", "o", "t", "a", "l",
    "A", "m", "o", "u", "n", "t", COMMA, "s", "o", "u", "r", "c",
    "e", "F", "i", "l", "e", "N", "a", "m", "e", COMMA, "v", "a",
    "t", "C", "r", "e", "d", "i", "t">>

(* C4, amended: the first line of the CSV text is the header line made of the
   names date, invoiceNumber, partyName, panOrVatNumber, particulars,
   taxableAmount, vatAmount, totalAmount, sourceFileName, vatCredit, joined
   by commas; no comma follows the last name and nothing (no byte-order mark)
   stands before the first. *)
C4_HeaderLine ==
    \A i \in Built :
        /\ Len(exports[i].content) >= Len(EmittedHeader) + 2
        /\ SubSeq(exports[i].content, 1, Len(EmittedHeader) + 2) = EmittedHeader \o CRLF
        /\ Parsed(i)[1] = ColumnOrder

C4_Witness ==
    \E i \in Built : Len(Rows(i)) = 1 /\ exports[i].result = "returned"

\* the characters that make a cell quoted
HasSpecial(s) == \E n \in 1..Len(s) : s[n] \in {COMMA, DQUOTE, CR, LF}

QuotesBefore(s, n) == Cardinality({m \in 1..(n - 1) : s[m] = DQUOTE})

\* s with every double quote written twice: the character n of s stands at
\* n + QuotesBefore(s, n), and once more after it when it is a double quote
Doubled(s) ==
    [m \in 1..(Len(s) + QuotesBefore(s, Len(s) + 1)) |->
        s[CHOOSE n \in 1..Len(s) :
             \/ n + QuotesBefore(s, n) = m
             \/ (n + QuotesBefore(s, n) = m - 1 /\ s[n] = DQUOTE)]]

ClaimedCell(s) ==
    IF HasSpecial(s) THEN <<DQUOTE>> \o Doubled(s) \o <<DQUOTE>> ELSE s

\* the text of the cell of a column, before quoting
ColumnText(row, c) ==
    IF c = 10
    THEN (IF Get(row, vatCredit) = Bool(TRUE) THEN <<"T", "R", "U", "E">>
          ELSE <<"F", "A", "L", "S", "E">>)
    ELSE TextOf(Get(row, ColumnOrder[c]))

ExampleLine ==
    <<"2", "0", "2", "4", "-", "0", "7", "-", "2", "0", COMMA, "I", "N",
    "V", "-", "1", COMMA, DQUOTE, "E", "x", COMMA, " ", "I", "n",
    "c", ".", DQUOTE, COMMA, COMMA, DQUOTE, "A", " ", DQUOTE,
    DQUOTE, "s", "p", "e", "c", "i", "a", "l", DQUOTE, DQUOTE, " ",
    "j", "o", "b", DQUOTE, COMMA, "1", "0", "0", COMMA, "1", "3",
    COMMA, "1", "1", "3", COMMA, "a", ".", "p", "d", "f", COMMA,
    "T", "R", "U", "E">>

\* the text of export i between its header line and its last line break
DataText(i) ==
    SubSeq(exports[i].content, Len(EmittedHeader) + 3, Len(exports[i].content) - 2)

(* C5: a cell is wrapped in double quotes, with every double quote in it
   doubled, if and only if its text contains a comma, a double quote, a
   carriage return or a line feed; any other text is emitted as it is.  The
   example record yields the row
   2024-07-20,INV-1,"Ex, Inc.",,"A ""special"" job",100,13,113,a.pdf,TRUE. *)
C5_QuotedIffSpecial ==
    \A i \in Built :
        Len(Rows(i)) = 1 =>
            /\ DataText(i) = Join([c \in 1..10 |-> ClaimedCell(ColumnText(Rows(i)[1], c))],
                                  <<COMMA>>)
            /\ (Rows(i)[1] = ExampleRecord => DataText(i) = ExampleLine)

C5_Witness ==
    /\ \E i \in Built : Rows(i) = <<ExampleRecord>>
    /\ env.download

(* C6: the CSV text read by a reader of RFC 4180 gives back, for every row
   and every column holding a string, exactly the string of the record,
   double quotes, commas and line breaks included, and it gives back the
   names of the header, as many rows as records plus the header, and ten
   cells in every row. *)
C6_QuotingRoundTrip ==
    \A i \in Built :
        LET parsed == Parsed(i)
        IN  /\ parsed # <<"bad">>
            /\ Len(parsed) = Len(Rows(i)) + 1
            /\ parsed[1] = ColumnOrder
            /\ \A k \in 1..Len(Rows(i)) :
                  /\ Len(parsed[k + 1]) = 10
                  /\ \A c \in 1..9 :
                        LET v == Get(Rows(i)[k], ColumnOrder[c])
                        IN  /\ v.t = "string" => parsed[k + 1][c] = v.s
                            /\ v.t = "number" => parsed[k + 1][c] = String(v)

C6_Witness ==
    \E i \in Built :
        /\ Len(Rows(i)) = 2
        /\ Rows(i)[1] = ReversedRecord
        /\ Parsed(i)[2][3] = <<DQUOTE>>
        /\ Parsed(i)[2][5] = <<"a", CR>>

(* C7: the tax credit cell of a data row is TRUE when the record's flag is
   the boolean true, and FALSE when the flag is false, absent, null or not a
   boolean; it is never empty and never true or false in lower case. *)
C7_FlagCell ==
    \A i \in Built :
        LET parsed == Parsed(i)
        IN  \A k \in 1..Len(Rows(i)) :
               LET flag == Get(Rows(i)[k], vatCredit)
                   cells == parsed[k + 1]
               IN  /\ Len(cells) = 10
                   /\ flag = Bool(TRUE) => cells[10] = <<"T", "R", "U", "E">>
                   /\ flag # Bool(TRUE) => cells[10] = <<"F", "A", "L", "S", "E">>

C7_Witness ==
    \E i \in Built :
        /\ Rows(i) = <<WithCredit(Str(<<"t", "r", "u", "e">>))>>
        /\ Parsed(i)[2][10] = <<"F", "A", "L", "S", "E">>

(* C8: a record whose sourceFileName or tax id number is absent (undefined,
   null or no property) gets an empty cell in that column, and in no column
   is the text undefined or null emitted for an absent value. *)
Absent(v) == v.t \in {"undefined", "null"}

C8_AbsentIsEmpty ==
    \A i \in Built :
        LET parsed == Parsed(i)
        IN  \A k \in 1..Len(Rows(i)) :
               \A c \in 1..10 :
                  Absent(Get(Rows(i)[k], ColumnOrder[c])) =>
                      /\ Len(parsed[k + 1]) = 10
                      /\ parsed[k + 1][c] \notin
                            {<<"u", "n", "d", "e", "f", "i", "n", "e", "d">>,
                             <<"n", "u", "l", "l">>}
                      /\ (ColumnOrder[c] \in {sourceFileName, panOrVatNumber}
                             => parsed[k + 1][c] = <<>>)

C8_Witness ==
    \E i \in Built :
        /\ Rows(i) = <<Without(Without(WithOptionals(Null, Null), sourceFileName),
                               panOrVatNumber)>>
        /\ Parsed(i)[2][4] = <<>>
        /\ Parsed(i)[2][9] = <<>>

(* C9: two exportToCsv calls with the same record sequence build the same CSV
   text, character for character, whatever tiers there are and whatever the
   export before has done. *)
C9_SameRowsSameText ==
    \A i, j \in Built :
        exports[i].rows = exports[j].rows => exports[i].content = exports[j].content

C9_Witness ==
    /\ Len(exports) = 2
    /\ exports[1].rows = exports[2].rows
    /\ exports[1].built /\ exports[2].built
    /\ exports[1].outcome = "clickFailed"
    /\ exports[2].pc = "save_file"

\* the tier a capability call belongs to
TierOf(fn) == IF fn = "save_file" THEN 1 ELSE IF fn = "click" THEN 3 ELSE 2

PickerFns == {"showSaveFilePicker", "createWritable", "write", "close"}

Answers(p) == {p.answers[k] : k \in 1..Len(p.answers)}

BridgeFailed(p) ==
    \E a \in Answers(p) : a[1] = "save_file" /\ a[2] # "success"

PickerFailed(p) ==
    \E a \in Answers(p) : a[1] \in PickerFns /\ a[2] # "ok"

(* C10: the tiers are tried in the order host bridge, save picker, anchor
   download, and a tier is tried only when every tier before it is not there
   or has failed: a bridge that is there is called first and, when it
   reports success, nothing else is called; the save picker is not called
   while the bridge call is pending; the anchor download is not called when
   the save picker has succeeded. *)
C10_TierOrder ==
    \A i \in DOMAIN exports :
        LET p == exports[i]
            fns == Fns(p)
        IN  /\ \A k, l \in 1..Len(fns) : k < l => TierOf(fns[k]) <= TierOf(fns[l])
            /\ \A k \in 1..Len(fns) :
                  /\ TierOf(fns[k]) = 1 => env.pywebview
                  /\ TierOf(fns[k]) = 2 =>
                        /\ env.showSaveFilePicker
                        /\ (~env.pywebview \/ BridgeFailed(p))
                  /\ TierOf(fns[k]) = 3 =>
                        /\ (~env.pywebview \/ BridgeFailed(p))
                        /\ (~env.showSaveFilePicker \/ PickerFailed(p))
            /\ (env.pywebview /\ p.built) => (fns # <<>> /\ fns[1] = "save_file")
            /\ <<"save_file", "success">> \in Answers(p) => fns = <<"save_file">>
            /\ p.pc = "save_file" => fns = <<"save_file">>
            /\ <<"close", "ok">> \in Answers(p) => (\A k \in 1..Len(fns) : fns[k] # "click")

C10_Witness ==
    \E i \in DOMAIN exports :
        Fns(exports[i]) = <<"save_file", "showSaveFilePicker", "createWritable",
                            "write", "close", "click">>

\* the save_file promise of p has resolved with a failure or has rejected
BridgeSettledFailed(p) ==
    \E a \in Answers(p) : a[1] = "save_file" /\ a[2] \in {"failure", "rejected"}

\* what the tier after the bridge is handed when it is started for p
PickerStarted(p) ==
    /\ Len(p.calls) >= 2
    /\ p.calls[2] = [fn |-> "showSaveFilePicker", filename |-> p.filename,
                     content |-> <<>>, mimeType |-> mimeType]
    /\ p.dlg = [filename |-> p.filename, content |-> p.content, mimeType |-> mimeType]
    /\ \A k \in 1..Len(p.calls) :
          p.calls[k].fn = "write" =>
              (p.calls[k].content = p.content /\ p.calls[k].mimeType = mimeType)

AnchorStarted(p, k) ==
    /\ Len(p.calls) >= k
    /\ p.calls[k] = [fn |-> "click", filename |-> p.filename,
                     content |-> p.content, mimeType |-> mimeType]

(* C11: when the save_file promise resolves with a reported failure
   ({success: false} or no result) or rejects, the next tier is attempted
   with the filename, the CSV text and the MIME type of the export: the save
   picker when there is one, otherwise the anchor download; and when that
   attempt succeeds, exportToCsv has returned normally and no failure of a
   later tier is reported. *)
C11_BridgeFailureFallsThrough ==
    \A i \in DOMAIN exports :
        LET p == exports[i]
        IN  BridgeSettledFailed(p) =>
                /\ p.calls[1] = [fn |-> "save_file", filename |-> p.filename,
                                 content |-> p.content, mimeType |-> mimeType]
                /\ env.showSaveFilePicker => PickerStarted(p)
                /\ (~env.showSaveFilePicker /\ env.download) => AnchorStarted(p, 2)
                /\ (~env.showSaveFilePicker /\ ~env.download) => p.outcome = "unsupported"
                /\ p.outcome \in {"picker", "anchor"} =>
                      /\ p.result = "returned"
                      /\ \A k \in 1..Len(p.alerts) :
                            p.alerts[k].kind \notin {"exportFailed", "unsupported"}

C11_Witness ==
    /\ \E i \in DOMAIN exports :
          /\ <<"save_file", "rejected">> \in Answers(exports[i])
          /\ exports[i].outcome = "picker"
    /\ env.download

\* the call save_file(...) itself threw, or gave back a value without .then
BridgeCallThrew(p) ==
    \E a \in Answers(p) : a[1] = "save_file" /\ a[2] \in {"throws", "notAPromise"}

\* a tier after the bridge has been started for p
LaterTierStarted(p) ==
    \/ \E k \in 1..Len(p.calls) : TierOf(p.calls[k].fn) > 1
    \/ p.outcome = "unsupported"

(* C12: when the call of the bridge's save function itself throws, or gives
   back something that is not a promise, exportToCsv falls through to the
   second tier (attemptSaveWithDialogs) and the export is not aborted. *)
C12_BridgeThrowFallsThrough ==
    \A i \in DOMAIN exports :
        BridgeCallThrew(exports[i]) =>
            /\ LaterTierStarted(exports[i])
            /\ exports[i].result = "returned"

(* C13: no exception crosses the boundary of exportToCsv: whatever the
   records and whatever the bridge, the picker, the writable stream and the
   anchor click do, the call returns normally to its caller, and a failure
   that ends the export is told to the user. *)
C13_NoExceptionCrosses ==
    \A i \in DOMAIN exports :
        LET p == exports[i]
        IN  /\ p.result = "returned"
            /\ p.outcome \in {"clickFailed", "unsupported", "threw"} => p.alerts # <<>>

\* the user has dismissed the save dialog of p
DialogCancelled(p) == <<"showSaveFilePicker", "AbortError">> \in Answers(p)

\* the alerts shown for p before its save dialog was opened
AlertsBeforeDialog(p) == IF BridgeSettledFailed(p) THEN 1 ELSE 0

(* C14: when the user cancels the native save dialog the export ends there
   as a terminal outcome: nothing is called after the dialog, the anchor
   download is not attempted, and no notification is shown for it (the only
   alert there can be is the one shown for a failed bridge before the dialog
   was opened). *)
C14_CancelIsTerminal ==
    \A i \in DOMAIN exports :
        LET p == exports[i]
        IN  DialogCancelled(p) =>
                /\ p.pc = "done"
                /\ p.outcome = "cancelled"
                /\ p.result = "returned"
                /\ Fns(p)[Len(p.calls)] = "showSaveFilePicker"
                /\ p.answers[Len(p.answers)] = <<"showSaveFilePicker", "AbortError">>
                /\ \A k \in 1..Len(p.calls) : p.calls[k].fn # "click"
                /\ Len(p.alerts) = AlertsBeforeDialog(p)
                /\ \A k \in 1..Len(p.alerts) :
                      p.alerts[k].kind \notin {"exportFailed", "unsupported"}
                /\ p.dom = [anchorAttached |-> FALSE, urlLive |-> FALSE]

C14_Witness ==
    /\ \E i \in DOMAIN exports :
          /\ DialogCancelled(exports[i])
          /\ exports[i].alerts = <<>>
    /\ env.download

\* a step of the save picker tier of p has failed, and it was not the user
\* dismissing the dialog
PickerStepFailed(p) ==
    \E a \in Answers(p) :
        /\ a[1] \in PickerFns
        /\ a[2] # "ok"
        /\ a # <<"showSaveFilePicker", "AbortError">>

\* triggerStandardLegacyDownload has run for p
LegacyAttempted(p) == p.outcome \in {"anchor", "clickFailed", "unsupported"}

(* C15: every failure of the save picker tier (of showSaveFilePicker,
   createWritable, write or close) other than the user cancelling the dialog
   falls through to the legacy anchor download; only the user's cancelling of
   the dialog stops the chain. *)
C15_OnlyCancelStopsChain ==
    \A i \in DOMAIN exports :
        LET p == exports[i]
        IN  /\ PickerStepFailed(p) => LegacyAttempted(p)
            /\ p.outcome = "cancelled" => DialogCancelled(p)

\* the legacy download of p has made an anchor element and an object URL
AnchorMade(p) == \E k \in 1..Len(p.calls) : p.calls[k].fn = "click"

Released(p) == ~p.dom.anchorAttached /\ ~p.dom.urlLive

(* C16: whenever the legacy anchor download has made an anchor element and an
   object URL, both are released before the tier finishes, also when the
   click throws: once triggerStandardLegacyDownload has returned, the anchor
   is not attached to the document and the object URL is revoked. *)
C16_AnchorAndUrlReleased ==
    \A i \in DOMAIN exports :
        LET p == exports[i]
        IN  /\ AnchorMade(p) => (p.pc = "done" /\ LegacyAttempted(p) /\ Released(p))
            /\ p.pc = "done" => Released(p)

C16_Witness ==
    \E i \in DOMAIN exports :
        /\ <<"click", "threw">> \in Answers(exports[i])
        /\ exports[i].outcome = "clickFailed"
        /\ Released(exports[i])

\* no tier before the anchor download is there
NoBridgeNoPicker == ~env.pywebview /\ ~env.showSaveFilePicker

\* the user is told that the export is not supported, as the last alert of p
ToldUnsupported(p) ==
    /\ p.alerts # <<>>
    /\ p.alerts[Len(p.alerts)].kind = "unsupported"

\* the whole CSV text of p is in the diagnostic log, as its last entry
ContentLogged(p) ==
    /\ p.console # <<>>
    /\ p.console[Len(p.console)] =
          [level |-> "warn", msg |-> "downloadNotSupported", data |-> p.content]
    /\ EndsWithLineBreak(p.content)

\* a step of the save picker tier of p has failed with an error that is not
\* named AbortError
PickerFellThrough(p) ==
    \E a \in Answers(p) : a[1] \in PickerFns /\ a[2] \notin {"ok", "AbortError"}

(* C17: when there is no host bridge and no save picker and the anchor
   element has no download attribute, the export ends with the 'not
   supported' notification to the user and with the whole CSV text written
   to the diagnostic log, and so it does whenever the anchor download is
   reached without the download attribute; such an export never ends without
   a notification. *)
C17_UnsupportedIsTold ==
    \A i \in Built :
        LET p == exports[i]
        IN  /\ (NoBridgeNoPicker /\ ~env.download) => p.outcome = "unsupported"
            /\ (~env.download /\ BridgeSettledFailed(p) /\ ~env.showSaveFilePicker)
                   => p.outcome = "unsupported"
            /\ (~env.download /\ PickerFellThrough(p)) => p.outcome = "unsupported"
            /\ p.outcome = "unsupported" =>
                  /\ ~env.download
                  /\ p.pc = "done"
                  /\ ToldUnsupported(p)
                  /\ ContentLogged(p)
                  /\ \A k \in 1..Len(p.calls) : p.calls[k].fn # "click"

C17_Witness ==
    /\ NoBridgeNoPicker /\ ~env.download
    /\ \E i \in Built :
          /\ exports[i].outcome = "unsupported"
          /\ exports[i].alerts = <<[kind |-> "unsupported", detail |-> NoError]>>
          /\ Rows(i) = <<ExampleRecord>>

\* the alerts that tell the user of a failure with an error behind it
FailureAlertKinds == {"pythonFailed", "bridgeError", "exportFailed"}

(* C18: every failure notification a delivery tier shows to the user (the
   bridge has reported a failure, the bridge call was rejected, the click of
   the anchor has failed) contains the message of the error behind it, never
   a generic text alone. *)
C18_AlertsCarryErrorMessage ==
    \A i \in DOMAIN exports :
        \A k \in 1..Len(exports[i].alerts) :
            LET a == exports[i].alerts[k]
            IN  /\ a.kind \in FailureAlertKinds => a.detail # NoError
                /\ a.kind = "bridgeError" => a.detail \in BridgeErrors
                /\ a.kind = "exportFailed" => a.detail \in ClickErrors

AlertKinds(p) == [k \in 1..Len(p.alerts) |-> p.alerts[k].kind]

(* C19: a failure of a tier that is not the last (the bridge call, the save
   dialog, the stream write) is recovered without notifying the user: the
   only notifications are those for the failure of the last tier and for the
   unsupported environment. *)
C19_OnlyFinalTierNotifies ==
    \A i \in DOMAIN exports :
        \A k \in 1..Len(exports[i].alerts) :
            exports[i].alerts[k].kind \in {"exportFailed", "unsupported"}

\* the alert of the bridge handlers, when the save_file promise has failed
BridgeAlert(p) ==
    IF <<"save_file", "failure">> \in Answers(p) THEN <<"pythonFailed">>
    ELSE IF <<"save_file", "rejected">> \in Answers(p) THEN <<"bridgeError">>
    ELSE <<>>

\* the alert of the anchor download, when it has failed or is not supported
FinalAlert(p) ==
    IF p.outcome = "clickFailed" THEN <<"exportFailed">>
    ELSE IF p.outcome = "unsupported" THEN <<"unsupported">>
    ELSE <<>>

(* C19, amended: a failure of the save picker tier (the dialog,
   createWritable, write, close) is never notified to the user; a failure of
   the bridge that comes through its promise (a reported failure or a
   rejection) is notified by one alert, shown before the next tier is
   attempted; every other notification is the one for the failure of the
   anchor click or the one for the unsupported environment. *)
C19_WhoIsNotified ==
    \A i \in DOMAIN exports :
        LET p == exports[i]
        IN  /\ AlertKinds(p) = BridgeAlert(p) \o FinalAlert(p)
            /\ BridgeSettledFailed(p) => LaterTierStarted(p)

C19_Witness ==
    \E i \in DOMAIN exports :
        /\ <<"save_file", "failure">> \in Answers(exports[i])
        /\ <<"write", "NotAllowedError">> \in Answers(exports[i])
        /\ exports[i].outcome = "anchor"
        /\ AlertKinds(exports[i]) = <<"pythonFailed">>

\* what a capability call made for p may be handed: the filename, the CSV
\* text and the MIME type of p, as far as the capability takes them
OwnArguments(p, call) ==
    IF call.fn \in {"save_file", "click"}
    THEN call = [fn |-> call.fn, filename |-> p.filename, content |-> p.content,
                 mimeType |-> mimeType]
    ELSE IF call.fn = "showSaveFilePicker"
    THEN call = [fn |-> call.fn, filename |-> p.filename, content |-> <<>>,
                 mimeType |-> mimeType]
    ELSE IF call.fn = "write"
    THEN call = [fn |-> call.fn, filename |-> "", content |-> p.content,
                 mimeType |-> mimeType]
    ELSE call = [fn |-> call.fn, filename |-> "", content |-> <<>>, mimeType |-> ""]

(* C20: two exportToCsv invocations whose delivery chains interleave in any
   order do not affect each other: every attempt of a tier made for an
   export is handed the filename of that export and the CSV text built from
   the records of that export, and so is the text logged for manual
   recovery. *)
C20_OwnFilenameAndContent ==
    \A i \in Built :
        LET p == exports[i]
        IN  /\ p.content = csvContent(Rows(i))
            /\ \A k \in 1..Len(p.calls) : OwnArguments(p, p.calls[k])
            /\ p.dlg \in {[filename |-> "", content |-> <<>>, mimeType |-> ""],
                          [filename |-> p.filename, content |-> p.content,
                           mimeType |-> mimeType]}
            /\ \A k \in 1..Len(p.console) : p.console[k].data \in {<<>>, p.content}

C20_Witness ==
    /\ Len(exports) = 2
    /\ exports[1].filename # exports[2].filename
    /\ exports[1].rows # exports[2].rows
    /\ exports[1].pc = "write"
    /\ Fns(exports[1]) = <<"save_file", "showSaveFilePicker", "createWritable", "write">>
    /\ exports[2].outcome = "picker"

Collection == app.allInvoiceItems

AmountFields == {taxableAmount, vatAmount, totalAmount}
RequiredStrings == {date, invoiceNumber, partyName, panOrVatNumber, particulars}

NonEmptyString(v) == v.t = "string" /\ v.s # <<>>

(* C24: every record the extraction step puts in the collection has its
   three amounts of numeric type and each of its required string fields
   (date, invoiceNumber, partyName, tax id number, particulars) set to a
   string that is not empty, the sentinel N/A when the model gave nothing
   for it. *)
C24_ExtractedFieldsDefaulted ==
    \A k \in 1..Len(Collection) :
        /\ \A f \in AmountFields : typeof(Get(Collection[k], f)) = "number"
        /\ \A f \in RequiredStrings : NonEmptyString(Get(Collection[k], f))

Count(seq, x) == Cardinality({n \in 1..Len(seq) : seq[n] = x})

\* the files of a batch whose extraction has ended this way, by position
Ended(batch, status) ==
    {k \in 1..Len(batch.files) : batch.results[k].status = status}

\* how many files of the batch with this name have ended this way
EndedNamed(batch, status, name) ==
    Cardinality({k \in Ended(batch, status) : batch.files[k] = name})

FailedNames(status) ==
    [n \in 1..Len(status.failedFiles) |-> status.failedFiles[n].fileName]

\* the item as the extraction made it is in the sequence, with whatever
\* sourceFileName and vatCredit
Holds(seq, item) ==
    \E m \in 1..Len(seq) :
        \A f \in {id, date, invoiceNumber, partyName, particulars,
                  taxableAmount, vatAmount, totalAmount} :
            Get(seq[m], f) = Get(item, f)

(* C25: an upload batch of n files collects all the settled results: in the
   step in which the batch finishes, successfulFiles holds the names of the
   files whose extraction succeeded and failedFiles those whose extraction
   failed, each file in exactly one of them, the two sizes sum to
   totalFilesAttempted = n, and the items of every file that succeeded are
   added to the collection, also when other files of the batch failed. *)
C25_BatchBookkeeping ==
    [][\A b \in DOMAIN app.batches :
          (~app.batches[b].done /\ app'.batches[b].done) =>
              LET batch == app.batches[b]
                  status == app'.processingStatus
                  added == SubSeq(app'.allInvoiceItems, Len(app.allInvoiceItems) + 1,
                                  Len(app'.allInvoiceItems))
              IN  /\ ~status.isProcessing
                  /\ status.totalFilesAttempted = Len(batch.files)
                  /\ Len(status.successfulFiles) + Len(status.failedFiles)
                        = Len(batch.files)
                  /\ \A name \in FileNames :
                        /\ Count(status.successfulFiles, name)
                              = EndedNamed(batch, "fulfilled", name)
                        /\ Count(FailedNames(status), name)
                              = EndedNamed(batch, "rejected", name)
                  /\ \A k \in Ended(batch, "fulfilled") :
                        \A n \in 1..Len(batch.results[k].items) :
                            Holds(added, batch.results[k].items[n])
    ]_vars

C25_Witness ==
    \E b \in DOMAIN app.batches :
        /\ app.batches[b].done
        /\ app.batches[b].files = <<<<"a">>, <<"b">>>>
        /\ app.batches[b].results[1].status = "rejected"
        /\ app.batches[b].results[2].status = "fulfilled"
        /\ app.processingStatus.successfulFiles = <<<<"b">>>>
        /\ FailedNames(app.processingStatus) = <<<<"a">>>>
        /\ \E k \in 1..Len(Collection) : Get(Collection[k], sourceFileName) = Str(<<"b">>)

(* C28: the ids of the items in the collection are pairwise distinct after
   any sequence of upload batches, files with equal names and extractions
   that end in the same millisecond included, so that a flag change for
   one row of the table never changes the flag of another row. *)
C28_IdsPairwiseDistinct ==
    \A i, j \in 1..Len(Collection) :
        i # j => Get(Collection[i], id) # Get(Collection[j], id)

Unfinished == {b \in DOMAIN app.batches : ~app.batches[b].done}

(* C29: processingStatus.isProcessing is true in every state in which some
   upload batch has started and has not finished yet, also when a second
   batch is started before the first one has finished, and it is false once
   every batch has finished. *)
C29_ProcessingWhileUnfinished ==
    app.processingStatus.isProcessing <=> (Unfinished # {})

\* the places <<file, item>> of the items a finished batch brings, in the
\* order of its files and, within one file, of its items
RECURSIVE Brought(_, _)
Brought(batch, k) ==
    IF k > Len(batch.files) THEN <<>>
    ELSE (IF batch.results[k].status = "fulfilled"
          THEN [n \in 1..Len(batch.results[k].items) |-> <<k, n>>]
          ELSE <<>>) \o Brought(batch, k + 1)

IsPrefix(s, t) == Len(s) <= Len(t) /\ SubSeq(t, 1, Len(s)) = s

(* C30: an upload batch only appends to the collection: in every step of an
   upload (start, empty selection, end of an extraction, end of the batch)
   the items present before are still there afterwards, with the same
   fields, tax-credit flag and order, also when the batch fails entirely, is
   empty or overlaps another batch; and the items a finishing batch appends
   are those of its files in file order, each with vatCredit false and
   sourceFileName equal to the name of its file. *)
C30_BatchOnlyAppends ==
    [][app'.flagChanges = app.flagChanges =>
          /\ IsPrefix(app.allInvoiceItems, app'.allInvoiceItems)
          /\ \A b \in DOMAIN app.batches :
                (~app.batches[b].done /\ app'.batches[b].done) =>
                    LET batch == app.batches[b]
                        brought == Brought(batch, 1)
                        added == SubSeq(app'.allInvoiceItems,
                                        Len(app.allInvoiceItems) + 1,
                                        Len(app'.allInvoiceItems))
                    IN  /\ Len(added) = Len(brought)
                        /\ \A m \in 1..Len(brought) :
                              LET k == brought[m][1]
                                  n == brought[m][2]
                              IN  /\ Get(added[m], id) = Get(batch.results[k].items[n], id)
                                  /\ Get(added[m], sourceFileName) = Str(batch.files[k])
                                  /\ Get(added[m], vatCredit) = Bool(FALSE)
          /\ (\A b \in DOMAIN app.batches : app'.batches[b].done = app.batches[b].done)
                => app'.allInvoiceItems = app.allInvoiceItems
    ]_vars

\* the first batch brought an item, the user flagged it, and a second batch
\* of two files has appended the items of both
C30_Witness ==
    /\ Len(app.batches) = 2
    /\ \A b \in 1..2 : app.batches[b].done
    /\ Len(app.batches[2].files) = 2
    /\ Len(Brought(app.batches[1], 1)) = 1
    /\ Len(Brought(app.batches[2], 1)) >= 2
    /\ Len(Collection) = 1 + Len(Brought(app.batches[2], 1))
    /\ Get(Collection[1], vatCredit) = Bool(TRUE)
    /\ Get(Collection[2], sourceFileName) = Str(<<"a">>)
    /\ Get(Collection[Len(Collection)], sourceFileName) = Str(<<"b">>)
    /\ Get(Collection[Len(Collection)], vatCredit) = Bool(FALSE)

(* C21: exportToCsv never modifies the records it is given or the caller's
   collection: in the step of the call and in every later step of the
   delivery, whatever its outcome, the collection has the same items with
   the same field values in the same order, the rows of the export stay what
   they were, and every record handed over is still as it was in the
   collection before the call. *)
C21_ExportLeavesRecordsAlone ==
    [][/\ exports' # exports => app'.allInvoiceItems = app.allInvoiceItems
       /\ \A i \in DOMAIN exports : exports'[i].rows = exports[i].rows
       /\ Len(exports') > Len(exports) =>
             LET rows == exports'[Len(exports')].rows.items
             IN  \A j \in 1..Len(rows) :
                    \E k \in 1..Len(app.allInvoiceItems) :
                        rows[j] = app.allInvoiceItems[k]
    ]_vars

\* both items were exported, the delivery has ended with a notification of
\* failure, and the collection still holds both, one of them flagged
C21_Witness ==
    \E i \in DOMAIN exports :
        /\ exports[i].pc = "done"
        /\ exports[i].built
        /\ exports[i].alerts # <<>>
        /\ Len(exports[i].rows.items) = 2
        /\ Collection = exports[i].rows.items
        /\ \E k \in 1..2 : Get(Collection[k], vatCredit) = Bool(TRUE)

\* the items of a collection whose tax-credit flag is true, in their order
FlaggedOf(collection) ==
    SelectSeq(collection, LAMBDA item : Get(item, vatCredit) = Bool(TRUE))

Started == {n \in 1..Len(app.asked) : app.asked[n].export # 0}

(* C22: the 'VAT return' export hands exportToCsv exactly the items of the
   collection whose tax-credit flag is true, in their collection order, and
   is not started when no item is flagged; the 'download all' export hands
   it the whole collection in order and is not started when the collection
   is empty. No export is started in any other way. *)
C22_HandlersHandTheRightItems ==
    /\ \A n \in 1..Len(app.asked) :
          LET e == app.asked[n]
              due == IF e.handler = "handleProceedVatReturn"
                     THEN FlaggedOf(e.collection)
                     ELSE e.collection
          IN  /\ e.export = 0 <=> due = <<>>
              /\ e.export # 0 =>
                    /\ exports[e.export].rows = Arr(due)
                    /\ exports[e.export].filename =
                          (IF e.handler = "handleProceedVatReturn"
                           THEN "vat_return_items_2024-07-20.csv"
                           ELSE "invoice_items_batch_2024-07-20.csv")
    /\ Cardinality(Started) = Len(exports)

\* of two items the second alone is flagged, and the VAT return export was
\* started with it
C22_Witness ==
    \E n \in 1..Len(app.asked) :
        /\ app.asked[n].handler = "handleProceedVatReturn"
        /\ Len(app.asked[n].collection) = 2
        /\ Get(app.asked[n].collection[1], vatCredit) = Bool(FALSE)
        /\ Get(app.asked[n].collection[2], vatCredit) = Bool(TRUE)
        /\ app.asked[n].export # 0
        /\ Len(exports[app.asked[n].export].rows.items) = 1

\* the properties of an item other than its tax-credit flag
OtherFields(item) == SelectSeq(item, LAMBDA pr : pr[1] # vatCredit)

(* C23: a user flag change handleVatCreditChange(itemId, checked) changes
   only the tax-credit flag of the item with that id, which becomes checked:
   every other field of that item, every other item and the length and the
   order of the collection are unchanged, and an unknown id changes nothing. *)
C23_FlagChangeOnlyChangesFlag ==
    [][app'.flagChanges # app.flagChanges =>
          LET itemId == Str(app'.lastChange.itemId)
              checked == Bool(app'.lastChange.checked)
              old == app.allInvoiceItems
              new == app'.allInvoiceItems
          IN  /\ Len(new) = Len(old)
              /\ \A k \in 1..Len(old) :
                    IF Get(old[k], id) = itemId
                    THEN /\ Get(new[k], vatCredit) = checked
                         /\ OtherFields(new[k]) = OtherFields(old[k])
                    ELSE new[k] = old[k]
              /\ (\A k \in 1..Len(old) : Get(old[k], id) # itemId) => new = old
              /\ exports' = exports
              /\ app'.processingStatus = app.processingStatus
    ]_vars

\* the flag of the second of two items was set and then cleared again, the
\* first item was never flagged
C23_Witness ==
    /\ app.flagChanges = 2
    /\ Len(Collection) = 2
    /\ app.lastChange.itemId = Get(Collection[2], id).s
    /\ ~app.lastChange.checked
    /\ Get(Collection[2], vatCredit) = Bool(FALSE)
    /\ Get(Collection[1], vatCredit) = Bool(FALSE)
    /\ Get(Collection[1], id) # Get(Collection[2], id)

CapabilityFns == {"save_file", "showSaveFilePicker", "createWritable", "write",
                  "close", "click"}

\* how often the capability fn was called for p
CallsOf(p, fn) == Cardinality({k \in 1..Len(p.calls) : p.calls[k].fn = fn})

\* how often attemptSaveWithDialogs was entered for p: each entry opens the
\* save dialog or logs that there is none
DialogsStarted(p) ==
    CallsOf(p, "showSaveFilePicker")
    + Cardinality({k \in 1..Len(p.console) : p.console[k].msg = "fsApiNotSupported"})

\* how often the anchor download was entered for p: each entry clicks the
\* anchor or tells that downloads are not supported
LegacyStarted(p) ==
    CallsOf(p, "click")
    + Cardinality({k \in 1..Len(p.alerts) : p.alerts[k].kind = "unsupported"})

(* C26: for each exportToCsv invocation every delivery tier is attempted at
   most once, in the order bridge, save picker, anchor, and no tier is
   attempted after a tier has succeeded: a failure of the host bridge starts
   the dialog fallback (attemptSaveWithDialogs) exactly once and is notified
   once, never from both the result handler and the rejection handler of the
   same save. *)
C26_EachTierAtMostOnce ==
    \A i \in DOMAIN exports :
        LET p == exports[i]
        IN  /\ \A fn \in CapabilityFns : CallsOf(p, fn) <= 1
            /\ DialogsStarted(p) <= 1
            /\ LegacyStarted(p) <= 1
            /\ \A k, m \in 1..Len(p.calls) :
                  k < m => TierOf(p.calls[k].fn) <= TierOf(p.calls[m].fn)
            /\ <<"save_file", "success">> \in Answers(p) => Len(p.calls) = 1
            /\ <<"close", "ok">> \in Answers(p) =>
                  (p.calls[Len(p.calls)].fn = "close" /\ LegacyStarted(p) = 0)
            /\ Cardinality({k \in 1..Len(p.answers) : p.answers[k][1] = "save_file"}) <= 1
            /\ BridgeSettledFailed(p) =>
                  /\ DialogsStarted(p) = 1
                  /\ Len(BridgeAlert(p)) = 1
                  /\ Cardinality({k \in 1..Len(p.alerts) :
                                     p.alerts[k].kind \in {"pythonFailed", "bridgeError"}}) = 1

\* the bridge has reported a failure, the save dialog was opened once, the
\* write has failed and the anchor was clicked once
C26_Witness ==
    \E i \in DOMAIN exports :
        LET p == exports[i]
        IN  /\ p.pc = "done"
            /\ <<"save_file", "failure">> \in Answers(p)
            /\ <<"write", "NotAllowedError">> \in Answers(p)
            /\ <<"click", "ok">> \in Answers(p)
            /\ [k \in 1..Len(p.calls) |-> p.calls[k].fn]
                  = <<"save_file", "showSaveFilePicker", "createWritable", "write", "click">>

\* the three terminal outcomes of an export
HandedToTier(p) == p.outcome \in {"bridge", "picker", "anchor"}
CancelledByUser(p) == p.outcome = "cancelled" /\ DialogCancelled(p)
FailureNotified(p) == p.outcome \in {"clickFailed", "unsupported"} /\ FinalAlert(p) # <<>>

OutcomesOf(p) ==
    (IF HandedToTier(p) THEN {"handed"} ELSE {})
    \cup (IF CancelledByUser(p) THEN {"cancelled"} ELSE {})
    \cup (IF FailureNotified(p) THEN {"notified"} ELSE {})

(* C27: every export of a non-empty record sequence ends in exactly one
   terminal outcome: the file handed to a tier that succeeded, the dialog
   cancelled by the user, or a failure notification the user sees; no export
   has stopped with none of the three. *)
C27_ExactlyOneTerminalOutcome ==
    \A i \in DOMAIN exports :
        (exports[i].pc = "done" /\ exports[i].built) =>
            Cardinality(OutcomesOf(exports[i])) = 1

=============================================================================
